---- MODULE Spec2Model ----
(***************************************************************************)
(* A model of exp_mpi.py: the benchmark harness that runs each MPI string  *)
(* matching executable at each rank count, repeats the run, parses the     *)
(* two fields of its standard output, aggregates the trials of a cell and  *)
(* prints the speedup of every cell against the 1-rank cell.               *)
(*                                                                         *)
(* Python's float is binary floating point with round-half-to-even.  The   *)
(* model keeps that arithmetic and scales its precision down: a float is   *)
(* a natural number of quanta (one quantum is 2^-QuantumBits seconds)      *)
(* whose significand holds MantBits bits (binary64 holds 53).              *)
(***************************************************************************)
EXTENDS Integers, Sequences, FiniteSets, TLC

\* ------------------------------------------------------------------------
\* Bounds of the model
\* ------------------------------------------------------------------------

\* How many entries of ALGORITHMS (in registry order) the sweep covers.
NumAlgos == 2

\* How many entries of RANK_CONFIGS (in list order) the sweep covers.
NumRanks == 2

\* Bits of a float's significand.
MantBits == 5

\* A float is a multiple of 2^-QuantumBits.
QuantumBits == 3

\* ------------------------------------------------------------------------
\* Configuration (lines 14-21, 118)
\* ------------------------------------------------------------------------

ALGORITHMS == SubSeq(<<"BF", "BM", "RK">>, 1, NumAlgos)

RANK_CONFIGS == SubSeq(<<1, 2, 4, 8, 16, 32>>, 1, NumRanks)

repeat == 3

\* None, and a value that is not None, as sequences of length 0 and 1.
None == <<>>

Some(v) == <<v>>

\* ------------------------------------------------------------------------
\* Floating point
\* ------------------------------------------------------------------------

RECURSIVE Pow2(_)
Pow2(n) == IF n = 0 THEN 1 ELSE 2 * Pow2(n - 1)

\* The results of 0.0/0.0 and x/0.0 of numpy's float64 (line 158).
NaN == -1

Inf == -2

\* The integer nearest to num/den, a tie going to the even one.
RoundHalfEven(num, den) ==
    LET f == num \div den
        r == num % den
    IN  IF 2 * r < den THEN f
        ELSE IF 2 * r > den THEN f + 1
        ELSE IF f % 2 = 0 THEN f ELSE f + 1

\* The float nearest to num/den quanta: at most MantBits significant bits.
RECURSIVE RoundFloat(_, _)
RoundFloat(num, den) ==
    IF num < Pow2(MantBits) * den
    THEN RoundHalfEven(num, den)
    ELSE 2 * RoundFloat(num, 2 * den)

\* a + b of two finite floats.
FAdd(a, b) == RoundFloat(a + b, 1)

\* a / n of a finite float and a positive int (the int converts exactly).
FDivInt(a, n) ==
    IF a \in {NaN, Inf} THEN a ELSE RoundFloat(a, n)

\* a * n of a float and a positive int.
FMulInt(a, n) ==
    IF a \in {NaN, Inf} THEN a ELSE RoundFloat(a * n, 1)

\* a / b of two finite floats, as numpy.float64 divides: 0/0 is nan and
\* x/0 is inf, neither raises.
FDiv(a, b) ==
    IF b = 0 THEN (IF a = 0 THEN NaN ELSE Inf)
    ELSE RoundFloat(a * Pow2(QuantumBits), b)

\* The float that is the int n.
FromInt(n) == RoundFloat(n * Pow2(QuantumBits), 1)

\* sum(...) over a list of floats: from the int 0, left to right.
RECURSIVE FSum(_)
FSum(ts) ==
    IF ts = <<>> THEN 0
    ELSE FAdd(FSum(SubSeq(ts, 1, Len(ts) - 1)), ts[Len(ts)])

RECURSIVE SeqMin(_)
SeqMin(ts) ==
    IF Len(ts) = 1 THEN ts[1]
    ELSE LET m == SeqMin(Tail(ts)) IN IF ts[1] <= m THEN ts[1] ELSE m

RECURSIVE SeqMax(_)
SeqMax(ts) ==
    IF Len(ts) = 1 THEN ts[1]
    ELSE LET m == SeqMax(Tail(ts)) IN IF ts[1] >= m THEN ts[1] ELSE m

\* ------------------------------------------------------------------------
\* Standard output and its parsing (lines 49-62)
\* ------------------------------------------------------------------------

\* A line of standard output is
\*   [label |-> "Matches", digits |-> n]            "Matches: n"
\*   [label |-> "Time", hundredths |-> h, dots |-> d]
\*        "Time(s): " and a run of digits and dots holding d dots whose
\*        digits read h/100 (so "3.25" is hundredths 325, dots 1)
\*   [label |-> "other"]                            any other text.

MatchesLine(n) == [label |-> "Matches", digits |-> n]

TimeLine(h, d) == [label |-> "Time", hundredths |-> h, dots |-> d]

OtherLine == [label |-> "other"]

\* re.search: the first line of the output with that label, or None.
RECURSIVE search(_, _)
search(label, output) ==
    IF output = <<>> THEN None
    ELSE IF output[1].label = label THEN Some(output[1])
    ELSE search(label, Tail(output))

\* int(m.group(1)): a run of digits always converts.
ParseInt(line) == line.digits

\* float(t.group(1)) raises ValueError on a run with two dots ("1.2.3").
FloatRaises(line) == line.dots >= 2

\* float(t.group(1)): the float nearest to the decimal.
ParseFloat(line) == RoundFloat(line.hundredths * Pow2(QuantumBits), 100)

\* ------------------------------------------------------------------------
\* The Process Runner: what subprocess.run (lines 36-41) may do
\* ------------------------------------------------------------------------

\* Lines of standard output a child may print.
MaxLines == 2

\* The lines a child may print, given the match counts ms and the times hs
\* (in hundredths of a second) it may report; "1.2.3" is the time no float
\* reads.
Lines(ms, hs) ==
    {MatchesLine(n) : n \in ms}
        \cup {TimeLine(h, 1) : h \in hs}
        \cup {TimeLine(123, 2)}

RECURSIVE SeqsUpTo(_, _)
SeqsUpTo(S, n) ==
    IF n = 0 THEN {<<>>}
    ELSE LET shorter == SeqsUpTo(S, n - 1)
         IN  shorter \cup {Append(q, x) : q \in shorter, x \in S}

\* The outcomes of one subprocess.run call: TimeoutExpired, another
\* exception (the launch failed), or a CompletedProcess.  The output of a
\* child that exits with a status other than 0 is never read (line 46
\* returns before line 49), so one such outcome stands for all of them.
Outcomes(ms, hs) ==
    {[kind |-> "timeout"], [kind |-> "error"],
     [kind |-> "exit", returncode |-> 1, stdout |-> <<OtherLine>>]}
        \cup {[kind |-> "exit", returncode |-> 0, stdout |-> out] :
                out \in SeqsUpTo(Lines(ms, hs), MaxLines)}

\* Match counts and times of the children of one run_experiment call.
CellMatches == {5, 7}

CellTimes == {100, 325}

\* Match count of the children of a sweep; every child of one sweep prints
\* the same time, one of SweepTimes.
SweepMatches == {42}

SweepTimes == {0, 100}

VARIABLES
    child,        \* what the children print: [ms |-> counts, hs |-> times]
    exists,       \* Path(executable).exists() of each algorithm
    pc,           \* where main (or run_experiment) stands
    ai,           \* index in ALGORITHMS of main's loop (line 105)
    ri,           \* index in RANK_CONFIGS of main's loop (line 113)
    k,            \* iteration of run_experiment's loop (line 27), from 1
    results,      \* run_experiment's results
    ret,          \* what run_experiment returned: None or Some(dict)
    all_results,  \* main's all_results
    gi,           \* index of main's loop over df['algorithm'].unique()
    metrics,      \* the speedup lines printed (line 160), in order
    emitted,      \* what main has put out: message, table, CSV, plot
    invocations,  \* history: subprocess.run calls of this run_experiment call
    firstFailed,  \* history: its first trial that did not succeed, or 0
    firstPrinted, \* history: the match count its first trial printed
    attempted,    \* history: the run_experiment calls made, in order
    launched      \* history: the algorithms subprocess.run was called for

vars == <<child, exists, pc, ai, ri, k, results, ret, all_results, gi,
          metrics, emitted, invocations, firstFailed, firstPrinted,
          attempted, launched>>

runner == Outcomes(child.ms, child.hs)

\* ------------------------------------------------------------------------
\* run_experiment (lines 23-91)
\* ------------------------------------------------------------------------

\* matches and exec_time after lines 50-62, each None or Some(value).
matches(o) ==
    LET m == search("Matches", o.stdout)
    IN  IF m = None THEN None ELSE Some(ParseInt(m[1]))

exec_time(o) ==
    LET t == search("Time", o.stdout)
    IN  IF t = None THEN None ELSE Some(ParseFloat(t[1]))

\* One iteration of the loop returns None: subprocess.run raised (lines
\* 70-75), the child's exit status is not 0 (lines 43-46), or float()
\* raised on the time (line 62, caught at line 73).
TrialReturnsNone(o) ==
    \/ o.kind \in {"timeout", "error"}
    \/ /\ o.kind = "exit"
       /\ \/ o.returncode # 0
          \/ LET t == search("Time", o.stdout)
             IN  t # None /\ FloatRaises(t[1])

\* A trial fully succeeded: exit status 0 and both fields parsed.
Succeeded(o) ==
    /\ ~TrialReturnsNone(o)
    /\ matches(o) # None
    /\ exec_time(o) # None

\* The match count a trial printed, if it printed one.
Printed(o) == IF o.kind = "exit" THEN matches(o) ELSE None

\* results after lines 64-68: the trial is appended when both fields were
\* found, and the list is left as it is otherwise.
Collected(rs, o) ==
    IF matches(o) # None /\ exec_time(o) # None
    THEN Append(rs, [matches |-> matches(o)[1], time |-> exec_time(o)[1]])
    ELSE rs

Times(rs) == [i \in 1..Len(rs) |-> rs[i].time]

\* The dict of lines 81-91.
CellResult(algorithm_name, ranks, rs) ==
    [algorithm |-> algorithm_name,
     ranks     |-> ranks,
     matches   |-> rs[1].matches,
     time      |-> FDivInt(FSum(Times(rs)), Len(rs)),
     min_time  |-> SeqMin(Times(rs)),
     max_time  |-> SeqMax(Times(rs))]

\* What run_experiment returns after its loop (lines 77-91).
Aggregated(algorithm_name, ranks, rs) ==
    IF rs = <<>> THEN None ELSE Some(CellResult(algorithm_name, ranks, rs))

SetStatus(log, st) == [log EXCEPT ![Len(log)].status = st]

\* The history of a trial with outcome o.
Observe(o) ==
    /\ invocations' = invocations + 1
    /\ firstFailed' = IF firstFailed = 0 /\ ~Succeeded(o) THEN k
                      ELSE firstFailed
    /\ firstPrinted' = IF k = 1 THEN Printed(o) ELSE firstPrinted
    /\ launched' = launched \cup {ALGORITHMS[ai]}

\* An iteration that returns None (lines 43-46, 70-75).
TrialAborts ==
    /\ pc = "trial"
    /\ k <= repeat
    /\ \E o \in runner :
        /\ TrialReturnsNone(o)
        /\ Observe(o)
    /\ ret' = None
    /\ pc' = "collect"
    /\ attempted' = SetStatus(attempted, "failed")
    /\ UNCHANGED <<child, exists, ai, ri, k, results, all_results, gi,
                   metrics, emitted>>

\* An iteration that goes on to the next (lines 36-68).
TrialContinues ==
    /\ pc = "trial"
    /\ k <= repeat
    /\ \E o \in runner :
        /\ ~TrialReturnsNone(o)
        /\ results' = Collected(results, o)
        /\ Observe(o)
    /\ k' = k + 1
    /\ UNCHANGED <<child, exists, pc, ai, ri, ret, all_results, gi,
                   metrics, emitted, attempted>>

\* The loop is over (lines 77-91).
Aggregate ==
    /\ pc = "trial"
    /\ k > repeat
    /\ ret' = Aggregated(ALGORITHMS[ai], RANK_CONFIGS[ri], results)
    /\ pc' = "collect"
    /\ attempted' = SetStatus(attempted, IF ret' = None THEN "failed" ELSE "ok")
    /\ UNCHANGED <<child, exists, ai, ri, k, results, all_results, gi,
                   metrics, emitted, invocations, firstFailed, firstPrinted,
                   launched>>

\* ------------------------------------------------------------------------
\* main: the sweep (lines 103-125)
\* ------------------------------------------------------------------------

\* CheckExecutable without the test of line 109.
CheckExecutableNoTest ==
    /\ pc = "algo"
    /\ ai <= Len(ALGORITHMS)
    /\ pc' = "ranks" /\ ri' = 1 /\ ai' = ai
    /\ UNCHANGED <<child, exists, k, results, ret, all_results, gi, metrics,
                   emitted, invocations, firstFailed, firstPrinted,
                   attempted, launched>>

\* The head of the loop over ALGORITHMS and the check of line 109: an
\* algorithm whose executable is absent is skipped.
CheckExecutable ==
    /\ pc = "algo"
    /\ ai <= Len(ALGORITHMS)
    /\ IF exists[ALGORITHMS[ai]]
       THEN pc' = "ranks" /\ ri' = 1 /\ ai' = ai
       ELSE pc' = "algo" /\ ai' = ai + 1 /\ ri' = ri
    /\ UNCHANGED <<child, exists, k, results, ret, all_results, gi, metrics,
                   emitted, invocations, firstFailed, firstPrinted,
                   attempted, launched>>

\* The call of run_experiment for the next rank count (lines 113-119, 25).
CallRunExperiment ==
    /\ pc = "ranks"
    /\ ri <= Len(RANK_CONFIGS)
    /\ pc' = "trial"
    /\ results' = <<>>
    /\ k' = 1
    /\ invocations' = 0
    /\ firstFailed' = 0
    /\ firstPrinted' = None
    /\ attempted' = Append(attempted,
            [algorithm |-> ALGORITHMS[ai], ranks |-> RANK_CONFIGS[ri],
             status |-> "running"])
    /\ UNCHANGED <<child, exists, ai, ri, ret, all_results, gi, metrics,
                   emitted, launched>>

\* The loop over RANK_CONFIGS is over: on to the next algorithm.
NextAlgorithm ==
    /\ pc = "ranks"
    /\ ri > Len(RANK_CONFIGS)
    /\ pc' = "algo"
    /\ ai' = ai + 1
    /\ UNCHANGED <<child, exists, ri, k, results, ret, all_results, gi,
                   metrics, emitted, invocations, firstFailed, firstPrinted,
                   attempted, launched>>

\* Appended that puts the new dict first.
AppendedFront(all, r) == IF r # None THEN <<r[1]>> \o all ELSE all

\* all_results after lines 121-125: a dict is appended, None is not.
Appended(all, r) == IF r # None THEN Append(all, r[1]) ELSE all

\* Collect that leaves the sweep when the cell failed.
CollectStopsOnFailure ==
    /\ pc = "collect"
    /\ all_results' = Appended(all_results, ret)
    /\ IF ret = None
       THEN pc' = "algo" /\ ai' = Len(ALGORITHMS) + 1 /\ ri' = ri
       ELSE pc' = "ranks" /\ ai' = ai /\ ri' = ri + 1
    /\ results' = <<>>
    /\ k' = 1
    /\ invocations' = 0
    /\ firstFailed' = 0
    /\ firstPrinted' = None
    /\ UNCHANGED <<child, exists, ret, gi, metrics, emitted, attempted,
                   launched>>

\* Lines 121-125, and on to the next rank count.  run_experiment's frame
\* (results, the loop counter) is gone, and its history with it.
Collect ==
    /\ pc = "collect"
    /\ all_results' = Appended(all_results, ret)
    /\ ri' = ri + 1
    /\ pc' = "ranks"
    /\ results' = <<>>
    /\ k' = 1
    /\ invocations' = 0
    /\ firstFailed' = 0
    /\ firstPrinted' = None
    /\ UNCHANGED <<child, exists, ai, ret, gi, metrics, emitted, attempted,
                   launched>>

\* ------------------------------------------------------------------------
\* main: the report (lines 127-213)
\* ------------------------------------------------------------------------

\* The sweep is over and nothing was collected (lines 127-129).
NoResults ==
    /\ pc = "algo"
    /\ ai > Len(ALGORITHMS)
    /\ all_results = <<>>
    /\ emitted' = emitted \cup {"no results"}
    /\ pc' = "returned"
    /\ UNCHANGED <<child, exists, ai, ri, k, results, ret, all_results, gi,
                   metrics, invocations, firstFailed, firstPrinted,
                   attempted, launched>>

\* Report without the test of line 127.
ReportAlways ==
    /\ pc = "algo"
    /\ ai > Len(ALGORITHMS)
    /\ emitted' = emitted \cup {"table", "csv"}
    /\ pc' = "speedup"
    /\ gi' = 1
    /\ UNCHANGED <<child, exists, ai, ri, k, results, ret, all_results,
                   metrics, invocations, firstFailed, firstPrinted,
                   attempted, launched>>

\* The sweep is over with results: the table and the CSV (lines 131-143).
Report ==
    /\ pc = "algo"
    /\ ai > Len(ALGORITHMS)
    /\ all_results # <<>>
    /\ emitted' = emitted \cup {"table", "csv"}
    /\ pc' = "speedup"
    /\ gi' = 1
    /\ UNCHANGED <<child, exists, ai, ri, k, results, ret, all_results,
                   metrics, invocations, firstFailed, firstPrinted,
                   attempted, launched>>

\* df['algorithm'].unique(): the algorithms of all, in order of appearance.
unique(all) ==
    LET first == SelectSeq([i \in 1..Len(all) |-> i],
                    LAMBDA i : \A j \in 1..(i - 1) :
                        all[j].algorithm # all[i].algorithm)
    IN  [n \in 1..Len(first) |-> all[first[n]].algorithm]

\* df[df['algorithm'] == algo]
algo_df(all, algo) == SelectSeq(all, LAMBDA r : r.algorithm = algo)

\* algo_df[algo_df['ranks'] == 1]['time'].values
base_time(all, algo) ==
    LET rows == SelectSeq(algo_df(all, algo), LAMBDA r : r.ranks = 1)
    IN  [i \in 1..Len(rows) |-> rows[i].time]

\* The line printed for one row (lines 158-160).
SpeedupLine(base, row) ==
    LET speedup == FDiv(base, row.time)
    IN  [algorithm  |-> row.algorithm,
         ranks      |-> row.ranks,
         speedup    |-> speedup,
         efficiency |-> FMulInt(FDivInt(speedup, row.ranks), 100)]

\* SpeedupLines that takes the first row as the baseline.
SpeedupLinesFirstRow(all, algo) ==
    LET rows == algo_df(all, algo)
    IN  [i \in 1..Len(rows) |-> SpeedupLine(rows[1].time, rows[i])]

\* The lines printed for one algorithm (lines 151-160): none without a
\* 1-rank row.
SpeedupLines(all, algo) ==
    LET rows == algo_df(all, algo)
        base == base_time(all, algo)
    IN  IF Len(base) > 0
        THEN [i \in 1..Len(rows) |-> SpeedupLine(base[1], rows[i])]
        ELSE <<>>

\* One iteration of the loop of line 150.
SpeedupAnalysis ==
    /\ pc = "speedup"
    /\ gi <= Len(unique(all_results))
    /\ metrics' = metrics \o SpeedupLines(all_results, unique(all_results)[gi])
    /\ gi' = gi + 1
    /\ UNCHANGED <<child, exists, pc, ai, ri, k, results, ret, all_results,
                   emitted, invocations, firstFailed, firstPrinted,
                   attempted, launched>>

\* The plots, and main returns (lines 162-213).
GeneratePlots ==
    /\ pc = "speedup"
    /\ gi > Len(unique(all_results))
    /\ emitted' = emitted \cup {"plot"}
    /\ pc' = "returned"
    /\ UNCHANGED <<child, exists, ai, ri, k, results, ret, all_results, gi,
                   metrics, invocations, firstFailed, firstPrinted,
                   attempted, launched>>

\* ------------------------------------------------------------------------
\* Specifications
\* ------------------------------------------------------------------------

\* main starts (line 103); the file system and the children are any.
Init ==
    /\ \E h \in SweepTimes : child = [ms |-> SweepMatches, hs |-> {h}]
    /\ exists \in [{ALGORITHMS[i] : i \in 1..Len(ALGORITHMS)} -> BOOLEAN]
    /\ pc = "algo"
    /\ ai = 1
    /\ ri = 1
    /\ k = 1
    /\ results = <<>>
    /\ ret = None
    /\ all_results = <<>>
    /\ gi = 1
    /\ metrics = <<>>
    /\ emitted = {}
    /\ invocations = 0
    /\ firstFailed = 0
    /\ firstPrinted = None
    /\ attempted = <<>>
    /\ launched = {}

main ==
    \/ CheckExecutable
    \/ CallRunExperiment
    \/ NextAlgorithm
    \/ Collect
    \/ NoResults
    \/ Report
    \/ SpeedupAnalysis
    \/ GeneratePlots

run_experiment ==
    \/ TrialAborts
    \/ TrialContinues
    \/ Aggregate

Next == main \/ run_experiment

Spec == Init /\ [][Next]_vars

\* The harness is one sequential process: a step that can be taken is taken
\* (subprocess.run returns or raises within its timeout).
FairSpec == Spec /\ WF_vars(Next)

\* run_experiment called on its own, for any cell, line 25 just done.
InitCell ==
    /\ child = [ms |-> CellMatches, hs |-> CellTimes]
    /\ exists = [a \in {ALGORITHMS[i] : i \in 1..Len(ALGORITHMS)} |-> TRUE]
    /\ pc = "trial"
    /\ ai \in 1..Len(ALGORITHMS)
    /\ ri \in 1..Len(RANK_CONFIGS)
    /\ k = 1
    /\ results = <<>>
    /\ ret = None
    /\ all_results = <<>>
    /\ gi = 1
    /\ metrics = <<>>
    /\ emitted = {}
    /\ invocations = 0
    /\ firstFailed = 0
    /\ firstPrinted = None
    /\ attempted = <<[algorithm |-> ALGORITHMS[ai], ranks |-> RANK_CONFIGS[ri],
                      status |-> "running"]>>
    /\ launched = {}

SpecCell == InitCell /\ [][run_experiment]_vars

\* ------------------------------------------------------------------------
\* Properties
\* ------------------------------------------------------------------------

\* run_experiment has just returned.
Returned == pc = "collect"

AlgoNames == {ALGORITHMS[i] : i \in 1..Len(ALGORITHMS)}

\* The cells of the sweep in traversal order: algorithms in registry order
\* and, within an algorithm, rank counts in list order.
CrossProduct ==
    [i \in 1..(Len(ALGORITHMS) * Len(RANK_CONFIGS)) |->
        [algorithm |-> ALGORITHMS[((i - 1) \div Len(RANK_CONFIGS)) + 1],
         ranks     |-> RANK_CONFIGS[((i - 1) % Len(RANK_CONFIGS)) + 1]]]

Cell(r) == [algorithm |-> r.algorithm, ranks |-> r.ranks]

Cells(s) == [i \in 1..Len(s) |-> Cell(s[i])]

\* The run_experiment calls whose result main has dealt with.
Settled ==
    IF pc \in {"trial", "collect"}
    THEN SubSeq(attempted, 1, Len(attempted) - 1)
    ELSE attempted

\* C1: run_experiment returns a CellResult only if every one of its repeat
\* trials fully succeeded, and returns None once any trial has failed.
C1_AllTrialsOrNone ==
    Returned =>
        /\ ret # None => (invocations = repeat /\ firstFailed = 0)
        /\ firstFailed # 0 => ret = None

\* C2: fail-fast per cell: repeat invocations of the Process Runner when
\* the cell succeeds, none after a failed trial, so a failed cell has as
\* many invocations as the index of its first failed trial.
C2_FailFast ==
    /\ firstFailed # 0 => invocations = firstFailed
    /\ (Returned /\ ret # None) => invocations = repeat
    /\ (Returned /\ ret = None) => invocations = firstFailed

\* C3: in every CellResult, min_time <= time (the mean) <= max_time.
C3_MeanWithinMinMax ==
    (Returned /\ ret # None) =>
        /\ ret[1].min_time <= ret[1].time
        /\ ret[1].time <= ret[1].max_time

\* C4: the match count of a CellResult is the one the first trial of the
\* cell printed.
C4_MatchesOfFirstTrial ==
    (Returned /\ ret # None) => firstPrinted = Some(ret[1].matches)

\* C5: for an algorithm whose executable does not exist the Process Runner
\* is never invoked and all_results holds no entry, and the sweep goes on:
\* when main returns, every algorithm whose executable exists was run at
\* every rank count.
C5_MissingExecutableSkipped ==
    /\ \A a \in AlgoNames : ~exists[a] =>
        /\ a \notin launched
        /\ \A i \in 1..Len(attempted) : attempted[i].algorithm # a
        /\ \A i \in 1..Len(all_results) : all_results[i].algorithm # a
    /\ pc = "returned" =>
        \A a \in AlgoNames : exists[a] =>
            \A n \in 1..Len(RANK_CONFIGS) :
                \E i \in 1..Len(attempted) :
                    Cell(attempted[i]) =
                        [algorithm |-> a, ranks |-> RANK_CONFIGS[n]]

C5_Witness ==
    /\ pc = "returned"
    /\ ~exists[ALGORITHMS[1]]
    /\ exists[ALGORITHMS[2]]
    /\ ALGORITHMS[2] \in launched
    /\ all_results # <<>>

\* Every cell of every algorithm whose executable exists was attempted.
AllAttempted ==
    Cells(attempted) =
        SelectSeq(CrossProduct, LAMBDA c : exists[c.algorithm])

\* C6: a failed cell stops nothing: after it main goes on to the next rank
\* count with all_results as it was, and the sweep ends with every cell of
\* every algorithm whose executable exists attempted.
C6_FailureContained ==
    /\ [][(Returned /\ ret = None) =>
            (all_results' = all_results /\ pc' = "ranks" /\ ri' = ri + 1
                /\ ai' = ai)]_vars
    /\ <>(pc = "returned" /\ AllAttempted)

C6_Witness ==
    /\ pc = "returned"
    /\ \E i, j \in 1..Len(attempted) :
        /\ i < j
        /\ attempted[i].status = "failed"
        /\ attempted[j].status = "ok"
        /\ attempted[i].algorithm = attempted[j].algorithm
    /\ \E i \in 1..Len(all_results) :
        Cell(all_results[i]) = Cell(attempted[Len(attempted)])

\* C7: all_results is append-only and in traversal order: at every point
\* it holds, in the order of CrossProduct, exactly the cells attempted so
\* far that succeeded, each once, and a step changes it only by adding one
\* entry at its end.
C7_AppendOnlyInOrder ==
    /\ [](Cells(all_results) =
            SelectSeq(CrossProduct,
                LAMBDA c : \E i \in 1..Len(Settled) :
                    Cell(Settled[i]) = c /\ Settled[i].status = "ok"))
    /\ [][\/ all_results' = all_results
          \/ /\ Len(all_results') = Len(all_results) + 1
             /\ SubSeq(all_results', 1, Len(all_results)) = all_results]_vars

C7_Witness ==
    /\ Len(all_results) >= 2
    /\ Len(Settled) > Len(all_results)
    /\ all_results[1].algorithm # all_results[Len(all_results)].algorithm

\* C8: the speedup line of a 1-rank cell reads speedup 1.0 and efficiency
\* 100%, whatever non-negative mean time the cell carries.
C8_BaselineIsUnity ==
    \A i \in 1..Len(metrics) :
        metrics[i].ranks = 1 =>
            /\ metrics[i].speedup = FromInt(1)
            /\ metrics[i].efficiency = FromInt(100)

LinesOf(a) == SelectSeq(metrics, LAMBDA m : m.algorithm = a)

HasBaseline(a) ==
    \E i \in 1..Len(all_results) :
        all_results[i].algorithm = a /\ all_results[i].ranks = 1

\* C9: an algorithm with cells in all_results and none at 1 rank gets no
\* speedup line, and the other algorithms still get theirs: one line for
\* each of their cells.
C9_MissingBaseline ==
    /\ \A a \in AlgoNames : ~HasBaseline(a) => LinesOf(a) = <<>>
    /\ (pc = "returned" /\ all_results # <<>>) =>
        \A a \in AlgoNames : HasBaseline(a) =>
            Cells(LinesOf(a)) = Cells(algo_df(all_results, a))

C9_Witness ==
    /\ pc = "returned"
    /\ \E a, b \in AlgoNames :
        /\ algo_df(all_results, a) # <<>>
        /\ ~HasBaseline(a)
        /\ LinesOf(a) = <<>>
        /\ HasBaseline(b)
        /\ LinesOf(b) # <<>>

\* C10: a sweep that collected nothing ends in the 'no results' state: the
\* message is put out, and no table, CSV, speedup line or plot.
C10_NoResultsCollected ==
    all_results = <<>> =>
        /\ emitted \subseteq {"no results"}
        /\ metrics = <<>>
        /\ pc # "speedup"
        /\ pc = "returned" => emitted = {"no results"}

C10_Witness ==
    /\ pc = "returned"
    /\ all_results = <<>>
    /\ emitted = {"no results"}
    /\ attempted # <<>>

====
